---- MODULE Spec2Model ----
(***************************************************************************)
(* A state-machine model of two kernels of the rapier physics engine:      *)
(*   - SAPAxis, the per-axis sorted endpoint sequence of the multi-SAP     *)
(*     broad phase (geometry/broad_phase_multi_sap/sap_axis.rs);           *)
(*   - VelocityGroundConstraintWithManifoldFriction, the one-body contact  *)
(*     constraint of the velocity solver                                   *)
(*     (dynamics/solver/velocity_ground_constraint_with_manifold_friction).*)
(* Coordinates are integers; sequences are 1-based here and 0-based in the *)
(* source, so the source's index i is position i + 1 (see At and SetAt).   *)
(***************************************************************************)
EXTENDS Integers, Sequences, FiniteSets, TLC

(***************************************************************************)
(* Bounds of the model.                                                    *)
(***************************************************************************)
\* Proxies of the general broad-phase specification (ids 0 .. NProxies-1).
NProxies == 2
\* Proxies of the insertion-only specification.
NInsertProxies == 3
\* Box coordinates on the maintained axis range over 0 .. MaxCoord.
MaxCoord == 2
\* Solver contacts of a manifold: 0 .. MaxContacts.
MaxContacts == 5
\* Solver calls (generate, warmstart, solve, writeback_impulses) in one run.
MaxCalls == 4
\* solve calls in one run (and of each worker in the two-worker specification).
MaxSolves == 2

(***************************************************************************)
(* Program constants.                                                      *)
(***************************************************************************)
DIM == 3
NUM_SENTINELS == 1
\* The proxy id carried by both sentinels (all proxy bits set).
PROXY_MASK == 2147483647
\* Real::MAX, the magnitude of the sentinels' values: above every coordinate.
SENTINEL_VALUE == MaxCoord + 1000

VARIABLES
    axis,              \* the SAPAxis: min_bound, max_bound, endpoints
    proxies,           \* BroadPhaseProxies: proxy id -> [aabb: [mins, maxs]]
    existing_proxies,  \* the BitVec handed to the delete_out_of_bounds_* calls
    reporting,         \* HashMap<(u32, u32), bool> handed to the reporting calls
    last,              \* the last call: its name, arguments and outcome
    disjoint_calls,    \* history: every reporting call so far saw pairwise disjoint boxes
    params,            \* IntegrationParameters and the spring regularization of the step
    bodies,            \* RigidBodySet: body handle -> body
    manifolds_all,     \* the contact manifolds: manifold id -> manifold
    out_constraints,   \* the constraints generate emitted
    mj_lambdas,        \* the shared delta-velocity buffer: slot -> DeltaVel
    ncalls,            \* the solver calls made so far: all of them, and the solve calls
    slast,             \* the last solver call: its name and the constraint's index
    pc,                \* per worker: its position in warmstart / solve
    local              \* per worker: its local copy mj_lambda2 of the slot

sap_vars == <<axis, proxies, existing_proxies, reporting, last, disjoint_calls>>
solver_vars == <<params, bodies, manifolds_all, out_constraints, mj_lambdas, ncalls, slast>>
worker_vars == <<pc, local>>
vars == <<sap_vars, solver_vars, worker_vars>>

(***************************************************************************)
(* Sequences with the source's 0-based indices.                            *)
(***************************************************************************)
At(s, i) == s[i + 1]
SetAt(s, i, x) == [s EXCEPT ![i + 1] = x]

(***************************************************************************)
(* SAPEndpoint (super::SAPEndpoint): a value, a proxy and a start flag.    *)
(***************************************************************************)
start_endpoint(v, p) == [value |-> v, proxy |-> p, start |-> TRUE]
end_endpoint(v, p) == [value |-> v, proxy |-> p, start |-> FALSE]
start_sentinel == [value |-> -SENTINEL_VALUE, proxy |-> PROXY_MASK, start |-> TRUE]
end_sentinel == [value |-> SENTINEL_VALUE, proxy |-> PROXY_MASK, start |-> FALSE]
is_sentinel(e) == e.proxy = PROXY_MASK
is_start(e) == e.start
is_end(e) == ~e.start

\* super::sort2: the pair with the smaller id first.
sort2(a, b) == IF a < b THEN <<a, b>> ELSE <<b, a>>

\* BoundingVolume::intersects for AABBs: closed boxes, every axis.
intersects(a, b) ==
    \A d \in 1..DIM : a.mins[d] <= b.maxs[d] /\ a.maxs[d] >= b.mins[d]

\* HashMap::insert.
MapInsert(m, k, v) == (k :> v) @@ m
EmptyMap == <<>>

(***************************************************************************)
(* SAPAxis::new                                                            *)
(***************************************************************************)
SAPAxis_new(lo, hi) ==
    [min_bound |-> lo, max_bound |-> hi,
     endpoints |-> <<start_sentinel, end_sentinel>>]

\* The asserts with the one on the upper bound left out.
InsertAssertsHold_LowerOnly(ax, prx, dim, p) ==
    prx[p].aabb.mins[dim] <= ax.max_bound

(***************************************************************************)
(* SAPAxis::batch_insert                                                   *)
(***************************************************************************)
\* The asserts of the first loop, for one proxy.
InsertAssertsHold(ax, prx, dim, p) ==
    /\ prx[p].aabb.mins[dim] <= ax.max_bound
    /\ prx[p].aabb.maxs[dim] >= ax.min_bound

\* Both endpoints of a new proxy pushed at its lower bound.
NewEndpoints_BothAtLowerBound(prx, dim, proxy_id) ==
    << [ep |-> start_endpoint(prx[proxy_id].aabb.mins[dim], proxy_id), idx |-> 0],
       [ep |-> end_endpoint(prx[proxy_id].aabb.mins[dim], proxy_id), idx |-> 0] >>

\* The two pushes of the first loop for one proxy.
NewEndpoints(prx, dim, proxy_id) ==
    << [ep |-> start_endpoint(prx[proxy_id].aabb.mins[dim], proxy_id), idx |-> 0],
       [ep |-> end_endpoint(prx[proxy_id].aabb.maxs[dim], proxy_id), idx |-> 0] >>

\* The first loop: new_endpoints after the pushes for new[1..k].
RECURSIVE PushNew(_, _, _, _)
PushNew(prx, dim, new, k) ==
    IF k = 0 THEN <<>>
    ELSE PushNew(prx, dim, new, k - 1) \o NewEndpoints(prx, dim, new[k])

\* The number of proxies of `new` the first loop handles before an assert
\* fails (Len(new) when none does).
RECURSIVE AssertedPrefix(_, _, _, _, _)
AssertedPrefix(ax, prx, dim, new, k) ==
    IF k > Len(new) THEN Len(new)
    ELSE IF InsertAssertsHold(ax, prx, dim, new[k])
         THEN AssertedPrefix(ax, prx, dim, new, k + 1)
         ELSE k - 1

\* sort_by on the value: a stable sort.
RECURSIVE StableInsert(_, _)
StableInsert(s, x) ==
    IF s = <<>> THEN <<x>>
    ELSE IF s[Len(s)].ep.value <= x.ep.value
         THEN Append(s, x)
         ELSE Append(StableInsert(SubSeq(s, 1, Len(s) - 1), x), s[Len(s)])

\* new_endpoints merged as pushed, without the sort.
SortByValue_Unsorted(s) == s

RECURSIVE SortByValue(_)
SortByValue(s) ==
    IF s = <<>> THEN <<>>
    ELSE StableInsert(SortByValue(SubSeq(s, 1, Len(s) - 1)), s[Len(s)])

\* The inner loop of the merge: shift the existing endpoints above `v`.
RECURSIVE MergeShift(_, _, _, _)
MergeShift(eps, curr_existing_index, curr_shift_index, v) ==
    IF At(eps, curr_existing_index).value <= v
    THEN [eps |-> eps, ce |-> curr_existing_index, cs |-> curr_shift_index]
    ELSE MergeShift(SetAt(eps, curr_shift_index, At(eps, curr_existing_index)),
                    curr_existing_index - 1, curr_shift_index - 1, v)

\* The outer loop of the merge, over new_endpoints in reverse (k = Len .. 1).
RECURSIVE MergeNew(_, _, _, _, _)
MergeNew(eps, news, k, curr_existing_index, curr_shift_index) ==
    IF k = 0 THEN [endpoints |-> eps, new_endpoints |-> news]
    ELSE LET r == MergeShift(eps, curr_existing_index, curr_shift_index,
                             news[k].ep.value)
         IN MergeNew(SetAt(r.eps, r.cs, news[k].ep),
                     [news EXCEPT ![k].idx = r.cs],
                     k - 1, r.ce, r.cs - 1)

\* Vec::resize with end sentinels.
Resize(eps, n) == eps \o [i \in 1..(n - Len(eps)) |-> end_sentinel]

Merge(eps, news) ==
    LET new_num_endpoints == Len(eps) + Len(news)
    IN MergeNew(Resize(eps, new_num_endpoints), news, Len(news),
                Len(eps) - NUM_SENTINELS - 1,
                new_num_endpoints - NUM_SENTINELS - 1)

\* The candidate test of the reporting pass for endpoint2 against the new
\* start endpoint of proxy1 (min = its value, max = proxy1's upper bound).
ReportCandidate(prx, dim, endpoint2, min, max) ==
    \/ is_start(endpoint2) /\ endpoint2.value < max
    \/ is_end(endpoint2) /\ prx[endpoint2.proxy].aabb.mins[dim] <= min

\* A reporting pass that trusts the axis test alone and skips the box
\* intersection test.
ReportHit_AxisOnly(prx, dim, endpoint, endpoint2) ==
    /\ endpoint2.proxy # endpoint.proxy
    /\ ReportCandidate(prx, dim, endpoint2, endpoint.value,
                       prx[endpoint.proxy].aabb.maxs[dim])

\* Whether the pass reports the pair of the new start endpoint and endpoint2.
ReportHit(prx, dim, endpoint, endpoint2) ==
    LET proxy1 == prx[endpoint.proxy] IN
    /\ endpoint2.proxy # endpoint.proxy
    /\ ReportCandidate(prx, dim, endpoint2, endpoint.value, proxy1.aabb.maxs[dim])
    /\ intersects(proxy1.aabb, prx[endpoint2.proxy].aabb)

\* The inner loop of the reporting pass: endpoints j .. Len - 2.
RECURSIVE ReportScan(_, _, _, _, _, _)
ReportScan(rep, eps, prx, dim, endpoint, j) ==
    IF j > Len(eps) - 2 THEN rep
    ELSE LET endpoint2 == At(eps, j)
         IN ReportScan(IF ReportHit(prx, dim, endpoint, endpoint2)
                       THEN MapInsert(rep, sort2(endpoint.proxy, endpoint2.proxy), TRUE)
                       ELSE rep,
                       eps, prx, dim, endpoint, j + 1)

\* The outer loop of the reporting pass, over the new start endpoints.
RECURSIVE ReportNew(_, _, _, _, _, _)
ReportNew(rep, eps, prx, dim, news, k) ==
    IF k > Len(news) THEN rep
    ELSE ReportNew(IF is_start(news[k].ep)
                   THEN ReportScan(rep, eps, prx, dim, news[k].ep, news[k].idx + 1)
                   ELSE rep,
                   eps, prx, dim, news, k + 1)

\* batch_insert as a whole: the axis and the map afterwards, and whether it
\* returned (ok) or an assert failed. new_endpoints is a workspace the call
\* clears on entry: it is local to the call here, not a field of the axis.
batch_insert(ax, prx, dim, new, rep, with_reporter) ==
    IF new = <<>> THEN [axis |-> ax, reporting |-> rep, ok |-> TRUE]
    ELSE LET n == AssertedPrefix(ax, prx, dim, new, 1) IN
         IF n < Len(new)
         THEN [axis |-> ax, reporting |-> rep, ok |-> FALSE]
         ELSE LET m == Merge(ax.endpoints, SortByValue(PushNew(prx, dim, new, n)))
              IN IF with_reporter
                 THEN [axis |-> [ax EXCEPT !.endpoints = m.endpoints],
                       reporting |-> ReportNew(rep, m.endpoints, prx, dim,
                                               m.new_endpoints, 1),
                       ok |-> TRUE]
                 ELSE [axis |-> [ax EXCEPT !.endpoints = m.endpoints],
                       reporting |-> rep, ok |-> TRUE]

\* An out-of-bounds end endpoint counted whether or not the bit of its
\* proxy is still set.
RemovedBelow_AnyEnd(bits, endpoint) == is_end(endpoint)

\* The first loop removes the proxy of an endpoint below min_bound.
RemovedBelow(bits, endpoint) == is_end(endpoint) /\ bits[endpoint.proxy]

\* An out-of-bounds endpoint above max_bound removed on its end endpoint
\* as well as on its start endpoint.
RemovedAbove_AnyEndpoint(bits, endpoint) ==
    ~is_sentinel(endpoint) /\ bits[endpoint.proxy]

\* The second loop removes the proxy of an endpoint above max_bound.
RemovedAbove(bits, endpoint) == is_start(endpoint) /\ bits[endpoint.proxy]

(***************************************************************************)
(* SAPAxis::delete_out_of_bounds_proxies                                   *)
(***************************************************************************)
\* The first loop, from the front, at index i.
RECURSIVE DeleteBelow(_, _, _, _)
DeleteBelow(ax, bits, deleted, i) ==
    IF i >= Len(ax.endpoints) \/ ~(At(ax.endpoints, i).value < ax.min_bound)
    THEN [bits |-> bits, deleted |-> deleted]
    ELSE LET endpoint == At(ax.endpoints, i) IN
         IF RemovedBelow(bits, endpoint)
         THEN DeleteBelow(ax, [bits EXCEPT ![endpoint.proxy] = FALSE], deleted + 1, i + 1)
         ELSE DeleteBelow(ax, bits, deleted, i + 1)

\* The second loop, from the back, at index i.
RECURSIVE DeleteAbove(_, _, _, _)
DeleteAbove(ax, bits, deleted, i) ==
    IF i < 0 \/ ~(At(ax.endpoints, i).value > ax.max_bound)
    THEN [bits |-> bits, deleted |-> deleted]
    ELSE LET endpoint == At(ax.endpoints, i) IN
         IF RemovedAbove(bits, endpoint)
         THEN DeleteAbove(ax, [bits EXCEPT ![endpoint.proxy] = FALSE], deleted + 1, i - 1)
         ELSE DeleteAbove(ax, bits, deleted, i - 1)

delete_out_of_bounds_proxies(ax, bits) ==
    LET below == DeleteBelow(ax, bits, 0, 0)
    IN DeleteAbove(ax, below.bits, below.deleted, Len(ax.endpoints) - 1)

(***************************************************************************)
(* SAPAxis::delete_out_of_bounds_endpoints                                 *)
(***************************************************************************)
delete_out_of_bounds_endpoints(ax, bits) ==
    [ax EXCEPT !.endpoints =
        SelectSeq(ax.endpoints, LAMBDA endpt : is_sentinel(endpt) \/ bits[endpt.proxy])]

(***************************************************************************)
(* SAPAxis::update_endpoints                                               *)
(***************************************************************************)
\* The two while loops: bubble endpoint_i (already refreshed) left from j.
RECURSIVE Bubble(_, _, _, _, _)
Bubble(eps, rep, prx, endpoint_i, j) ==
    IF endpoint_i.value < At(eps, j - 1).value
    THEN LET endpoint_j == At(eps, j - 1)
             aabb_i == prx[endpoint_i.proxy].aabb
             aabb_j == prx[endpoint_j.proxy].aabb
             pair == sort2(endpoint_i.proxy, endpoint_j.proxy)
             rep2 == IF is_start(endpoint_i)
                     THEN IF is_end(endpoint_j) /\ intersects(aabb_i, aabb_j)
                          THEN MapInsert(rep, pair, TRUE) ELSE rep
                     ELSE IF is_start(endpoint_j) /\ ~intersects(aabb_i, aabb_j)
                          THEN MapInsert(rep, pair, FALSE) ELSE rep
         IN Bubble(SetAt(eps, j, endpoint_j), rep2, prx, endpoint_i, j - 1)
    ELSE [eps |-> SetAt(eps, j, endpoint_i), rep |-> rep]

\* Every endpoint refreshed to the lower bound of its proxy.
LiveValue_LowerBoundOnly(prx, dim, e) == prx[e.proxy].aabb.mins[dim]

\* The live bound an endpoint is refreshed to.
LiveValue(prx, dim, e) ==
    IF is_start(e) THEN prx[e.proxy].aabb.mins[dim] ELSE prx[e.proxy].aabb.maxs[dim]

\* The for loop, at index i (NUM_SENTINELS .. last_endpoint - 1).
RECURSIVE UpdateFrom(_, _, _, _, _)
UpdateFrom(eps, rep, prx, dim, i) ==
    IF i >= Len(eps) - NUM_SENTINELS THEN [eps |-> eps, rep |-> rep]
    ELSE LET endpoint_i == [At(eps, i) EXCEPT !.value = LiveValue(prx, dim, At(eps, i))]
             r == Bubble(eps, rep, prx, endpoint_i, i)
         IN UpdateFrom(r.eps, r.rep, prx, dim, i + 1)

update_endpoints(ax, prx, dim, rep) ==
    LET r == UpdateFrom(ax.endpoints, rep, prx, dim, NUM_SENTINELS)
    IN [axis |-> [ax EXCEPT !.endpoints = r.eps], reporting |-> r.rep]

(***************************************************************************)
(* Real numbers of the solver, as exact rationals <<numerator,             *)
(* denominator>> in lowest terms with a positive denominator.              *)
(***************************************************************************)
Abs(n) == IF n < 0 THEN -n ELSE n

RECURSIVE Gcd(_, _)
Gcd(a, b) == IF b = 0 THEN a ELSE Gcd(b, a % b)

Rat(n, d) ==
    LET g == Gcd(Abs(n), Abs(d))
        sgn == IF d < 0 THEN -1 ELSE 1
    IN <<sgn * (n \div g), sgn * (d \div g)>>

R(n) == <<n, 1>>
RZero == R(0)
ROne == R(1)
\* The operations divide by common factors before they multiply, so that
\* no intermediate value is larger than the result needs.
RAdd(a, b) ==
    LET g == Gcd(a[2], b[2])
    IN Rat(a[1] * (b[2] \div g) + b[1] * (a[2] \div g), (a[2] \div g) * b[2])
RNeg(a) == <<-a[1], a[2]>>
RSub(a, b) == RAdd(a, RNeg(b))
RMul(a, b) ==
    LET g1 == Gcd(Abs(a[1]), b[2])
        g2 == Gcd(Abs(b[1]), a[2])
    IN <<(a[1] \div g1) * (b[1] \div g2), (a[2] \div g2) * (b[2] \div g1)>>
\* a / b for b # 0.
RDiv(a, b) == RMul(a, IF b[1] < 0 THEN <<-b[2], -b[1]>> ELSE <<b[2], b[1]>>)
RLt(a, b) ==
    LET g == Gcd(a[2], b[2])
    IN a[1] * (b[2] \div g) < b[1] * (a[2] \div g)
RLe(a, b) == ~RLt(b, a)
RAbs(a) == <<Abs(a[1]), a[2]>>
\* The exact square root of a rational that is a square (a distance between
\* points that differ along one axis only).
ISqrt(n) == CHOOSE k \in 0..n : k * k = n
RSqrt(a) == <<ISqrt(a[1]), ISqrt(a[2])>>

\* f32::max.
RMax(a, b) == IF RLt(a, b) THEN b ELSE a
\* SimdPartialOrd::simd_clamp on a scalar.
simd_clamp(x, min, max) == IF RLt(x, min) THEN min ELSE IF RLt(max, x) THEN max ELSE x
\* crate::utils::inv: the zero-guarded reciprocal.
inv(x) == IF x = RZero THEN RZero ELSE RDiv(ROne, x)

(***************************************************************************)
(* Vectors of DIM = 3 reals (Vector<Real> and AngVector<Real>).            *)
(***************************************************************************)
V(x, y, z) == <<R(x), R(y), R(z)>>
VZero == V(0, 0, 0)
VAdd(a, b) == <<RAdd(a[1], b[1]), RAdd(a[2], b[2]), RAdd(a[3], b[3])>>
VNeg(a) == <<RNeg(a[1]), RNeg(a[2]), RNeg(a[3])>>
VSub(a, b) == VAdd(a, VNeg(b))
VScale(a, k) == <<RMul(a[1], k), RMul(a[2], k), RMul(a[3], k)>>
dot(a, b) == RAdd(RAdd(RMul(a[1], b[1]), RMul(a[2], b[2])), RMul(a[3], b[3]))
gdot(a, b) == dot(a, b)
gcross(a, b) ==
    << RSub(RMul(a[2], b[3]), RMul(a[3], b[2])),
       RSub(RMul(a[3], b[1]), RMul(a[1], b[3])),
       RSub(RMul(a[1], b[2]), RMul(a[2], b[1])) >>
norm_squared(a) == dot(a, a)
distance(a, b) == RSqrt(norm_squared(VSub(a, b)))

\* WBasis::orthonormal_basis of a unit 3-vector: two unit vectors orthogonal
\* to it and to each other.
\* The zero z component of a negated normal is -0.0 in the source (sign -1);
\* here zero has no sign and sign is 1: the basis differs by its orientation.
orthonormal_basis(v) ==
    LET sign == IF RLt(v[3], RZero) THEN R(-1) ELSE ROne
        a == RDiv(R(-1), RAdd(sign, v[3]))
        b == RMul(RMul(v[1], v[2]), a)
    IN << << RAdd(ROne, RMul(RMul(sign, RMul(v[1], v[1])), a)),
             RMul(sign, b),
             RNeg(RMul(sign, v[1])) >>,
          << b,
             RAdd(sign, RMul(RMul(v[2], v[2]), a)),
             RNeg(v[2]) >> >>

\* DeltaVel<Real>.
DeltaVel(l, a) == [linear |-> l, angular |-> a]
DeltaVel_zero == DeltaVel(VZero, VZero)

(***************************************************************************)
(* VelocityConstraintElementPart                                           *)
(***************************************************************************)
MAX_MANIFOLD_POINTS == 4

ElementPart(g, rhs, impulse, r) ==
    [gcross2 |-> g, rhs |-> rhs, impulse |-> impulse, r |-> r]

ElementPart_zero == ElementPart(VZero, RZero, RZero, RZero)

\* The sum of a sequence of reals, left to right.
RECURSIVE RSum(_)
RSum(s) == IF s = <<>> THEN RZero ELSE RAdd(RSum(SubSeq(s, 1, Len(s) - 1)), s[Len(s)])

RECURSIVE VSum(_)
VSum(s) == IF s = <<>> THEN VZero ELSE VAdd(VSum(SubSeq(s, 1, Len(s) - 1)), s[Len(s)])

(***************************************************************************)
(* VelocityGroundConstraintWithManifoldFriction::generate                  *)
(***************************************************************************)
\* AngularInertia::transform_vector, for an isotropic inertia (a scalar).
transform_vector(inertia, v) == VScale(v, inertia)

\* IntegrationParameters::inv_dt.
inv_dt(prm) == inv(prm.dt)

\* An unused element left holding a seed instead of zero.
UnusedPart_Seeded == ElementPart(VZero, RZero, ROne, RZero)

\* The impulse an unused normal element carries.
UnusedPart == ElementPart_zero

\* The normal element of one solver contact (the body of the first loop).
NormalPart(prm, rb1, rb2, force_dir1, warmstart_coeff, manifold_point) ==
    LET dp1 == VSub(manifold_point.point, rb1.world_com)
        dp2 == VSub(manifold_point.point, rb2.world_com)
        vel1 == VAdd(rb1.linvel, gcross(rb1.angvel, dp1))
        vel2 == VAdd(rb2.linvel, gcross(rb2.angvel, dp2))
        gcross2 == transform_vector(rb2.effective_world_inv_inertia_sqrt,
                                    gcross(dp2, VNeg(force_dir1)))
        r == RDiv(ROne, RAdd(RAdd(prm.cfm, rb2.effective_inv_mass),
                             gdot(gcross2, gcross2)))
        rhs0 == dot(VSub(vel1, vel2), force_dir1)
        rhs1 == IF RLe(rhs0, RNeg(prm.restitution_velocity_threshold))
                THEN RAdd(rhs0, RMul(manifold_point.restitution, rhs0))
                ELSE rhs0
        rhs == IF RLt(manifold_point.dist, RZero)
               THEN RAdd(rhs1, RMul(manifold_point.dist, prm.erp))
               ELSE RAdd(rhs1, RMul(manifold_point.dist, inv_dt(prm)))
        impulse == RMul(manifold_point.data.impulse, warmstart_coeff)
    IN ElementPart(gcross2, rhs, impulse, r)

\* manifold_center: the sum of point.coords / len over the chunk.
ManifoldCenter(manifold_points) ==
    VSum([k \in 1..Len(manifold_points) |->
            VScale(manifold_points[k].point,
                   RDiv(ROne, R(Len(manifold_points))))])

\* The tangent element j (1 or 2) of a chunk.
TangentPart(rb1, rb2, tangents1, manifold_center, tangent_impulses, warmstart_coeff, j) ==
    LET dp1 == VSub(manifold_center, rb1.world_com)
        dp2 == VSub(manifold_center, rb2.world_com)
        vel1 == VAdd(rb1.linvel, gcross(rb1.angvel, dp1))
        vel2 == VAdd(rb2.linvel, gcross(rb2.angvel, dp2))
        gcross2 == transform_vector(rb2.effective_world_inv_inertia_sqrt,
                                    gcross(dp2, VNeg(tangents1[j])))
        r == RDiv(ROne, RAdd(rb2.effective_inv_mass, gdot(gcross2, gcross2)))
        rhs == dot(VSub(vel1, vel2), tangents1[j])
        impulse == RMul(tangent_impulses[j], warmstart_coeff)
    IN ElementPart(gcross2, rhs, impulse, r)

\* The weight of contact k in the twist limit.
TwistWeight(point, manifold_center) == distance(point, manifold_center)

\* The twist element of a chunk.
TwistPart(manifold, rb1, rb2, force_dir1, warmstart_coeff) ==
    LET gcross2 == transform_vector(rb2.effective_world_inv_inertia_sqrt,
                                    VNeg(force_dir1))
    IN ElementPart(gcross2,
                   gdot(VSub(rb1.angvel, rb2.angvel), force_dir1),
                   RMul(manifold.data.twist_impulse, warmstart_coeff),
                   inv(norm_squared(gcross2)))

\* flipped: body2 is not dynamic, so the two bods swap roles.
Flipped(manifold, bods) == ~bods[manifold.data.body_pair.body2].is_dynamic

\* The body the constraint solves (rb2 after the swap) and its partner.
SolvedBody(manifold, bods) ==
    IF Flipped(manifold, bods)
    THEN bods[manifold.data.body_pair.body1]
    ELSE bods[manifold.data.body_pair.body2]

PartnerBody(manifold, bods) ==
    IF Flipped(manifold, bods)
    THEN bods[manifold.data.body_pair.body2]
    ELSE bods[manifold.data.body_pair.body1]

\* The direction negated whether or not the bodies swapped roles.
ForceDir1_AlwaysNegated(manifold, bods) == VNeg(manifold.data.normal)

ForceDir1(manifold, bods) ==
    IF Flipped(manifold, bods)
    THEN manifold.data.normal
    ELSE VNeg(manifold.data.normal)

\* The number of full chunks only.
NumChunks_RoundedDown(n) == n \div MAX_MANIFOLD_POINTS

\* slice::chunks: the number of chunks of n contacts, and chunk l (0-based).
NumChunks(n) == (n + MAX_MANIFOLD_POINTS - 1) \div MAX_MANIFOLD_POINTS

Chunk(solver_contacts, l) ==
    LET first == l * MAX_MANIFOLD_POINTS + 1
        lst == IF first + MAX_MANIFOLD_POINTS - 1 < Len(solver_contacts)
               THEN first + MAX_MANIFOLD_POINTS - 1
               ELSE Len(solver_contacts)
    IN SubSeq(solver_contacts, first, lst)

\* The constraint generate builds for chunk l (the body of its outer loop).
GenerateChunk(prm, manifold_id, manifold, bods, l) ==
    LET rb1 == PartnerBody(manifold, bods)
        rb2 == SolvedBody(manifold, bods)
        force_dir1 == ForceDir1(manifold, bods)
        warmstart_coeff == RMul(manifold.data.warmstart_multiplier,
                                prm.warmstart_coeff)
        manifold_points == Chunk(manifold.data.solver_contacts, l)
        len == Len(manifold_points)
        manifold_center == ManifoldCenter(manifold_points)
        tangent_impulses ==
            [j \in 1..(DIM - 1) |->
                RSum([k \in 1..len |-> manifold_points[k].data.tangent_impulse[j]])]
        tangents1 == orthonormal_basis(force_dir1)
    IN [dir1 |-> force_dir1,
        im2 |-> rb2.effective_inv_mass,
        limit |-> manifold_points[len].friction,
        mj_lambda2 |-> rb2.island_offset,
        manifold_id |-> manifold_id,
        manifold_contact_id |-> l * MAX_MANIFOLD_POINTS,
        num_contacts |-> len,
        normal_parts |->
            [k \in 1..MAX_MANIFOLD_POINTS |->
                IF k <= len
                THEN NormalPart(prm, rb1, rb2, force_dir1, warmstart_coeff,
                                manifold_points[k])
                ELSE UnusedPart],
        tangent_parts |->
            [j \in 1..(DIM - 1) |->
                TangentPart(rb1, rb2, tangents1, manifold_center,
                            tangent_impulses, warmstart_coeff, j)],
        twist_part |-> TwistPart(manifold, rb1, rb2, force_dir1, warmstart_coeff),
        twist_weights |->
            [k \in 1..MAX_MANIFOLD_POINTS |->
                IF k <= len
                THEN TwistWeight(manifold_points[k].point, manifold_center)
                ELSE RZero],
        impulse_scale |-> prm.impulse_scale]

\* The constraints generate emits for one manifold, in order.
generate(prm, manifold_id, manifold, bods) ==
    [i \in 1..NumChunks(Len(manifold.data.solver_contacts)) |->
        GenerateChunk(prm, manifold_id, manifold, bods, i - 1)]

(***************************************************************************)
(* VelocityGroundConstraintWithManifoldFriction::warmstart                 *)
(***************************************************************************)
\* The accumulation without the term of the twist element.
WarmstartDelta_NoTwist(c) ==
    LET tangents1 == orthonormal_basis(c.dir1)
        normal_lin == VSum([i \in 1..c.num_contacts |->
            VScale(c.dir1, RMul(RNeg(c.im2), c.normal_parts[i].impulse))])
        normal_ang == VSum([i \in 1..c.num_contacts |->
            VScale(c.normal_parts[i].gcross2, c.normal_parts[i].impulse)])
        tangent_lin == VSum([j \in 1..(DIM - 1) |->
            VScale(tangents1[j], RMul(RNeg(c.im2), c.tangent_parts[j].impulse))])
        tangent_ang == VSum([j \in 1..(DIM - 1) |->
            VScale(c.tangent_parts[j].gcross2, c.tangent_parts[j].impulse)])
    IN DeltaVel(VAdd(normal_lin, tangent_lin), VAdd(normal_ang, tangent_ang))

\* The local mj_lambda2 the call accumulates before it touches the buffer.
WarmstartDelta(c) ==
    LET tangents1 == orthonormal_basis(c.dir1)
        normal_lin == VSum([i \in 1..c.num_contacts |->
            VScale(c.dir1, RMul(RNeg(c.im2), c.normal_parts[i].impulse))])
        normal_ang == VSum([i \in 1..c.num_contacts |->
            VScale(c.normal_parts[i].gcross2, c.normal_parts[i].impulse)])
        tangent_lin == VSum([j \in 1..(DIM - 1) |->
            VScale(tangents1[j], RMul(RNeg(c.im2), c.tangent_parts[j].impulse))])
        tangent_ang == VSum([j \in 1..(DIM - 1) |->
            VScale(c.tangent_parts[j].gcross2, c.tangent_parts[j].impulse)])
        twist_ang == VScale(c.twist_part.gcross2, c.twist_part.impulse)
    IN DeltaVel(VAdd(normal_lin, tangent_lin),
                VAdd(VAdd(normal_ang, tangent_ang), twist_ang))

\* Every constraint addressed to the first slot.
Slot_First(c) == 0

\* The slot of the buffer the constraint addresses.
Slot(c) == c.mj_lambda2

warmstart(c, mjl) ==
    LET d == WarmstartDelta(c) IN
    [mjl EXCEPT
        ![Slot(c)] = DeltaVel(VAdd(@.linear, d.linear), VAdd(@.angular, d.angular))]

(***************************************************************************)
(* VelocityGroundConstraintWithManifoldFriction::solve                     *)
(***************************************************************************)
\* The impulse of the first normal element taken for the sum of the four.
NormalImpulseSum_FirstOnly(c) == c.normal_parts[1].impulse

\* The unrolled sum of the four normal impulses.
NormalImpulseSum(c) ==
    RAdd(RAdd(RAdd(c.normal_parts[1].impulse, c.normal_parts[2].impulse),
              c.normal_parts[3].impulse),
         c.normal_parts[4].impulse)

FrictionLimit(c) == RMul(c.limit, NormalImpulseSum(c))

TwistLimit(c) ==
    RMul(c.limit,
         RAdd(RAdd(RAdd(RMul(c.normal_parts[1].impulse, c.twist_weights[1]),
                        RMul(c.normal_parts[2].impulse, c.twist_weights[2])),
                   RMul(c.normal_parts[3].impulse, c.twist_weights[3])),
              RMul(c.normal_parts[4].impulse, c.twist_weights[4])))

\* A tangent update that forgets the clamp to the friction limit.
TangentImpulse_Unclamped(elt, dimpulse, friction_limit) ==
    RSub(elt.impulse, RMul(elt.r, dimpulse))

\* The new impulse of a tangent element.
TangentImpulse(elt, dimpulse, friction_limit) ==
    simd_clamp(RSub(elt.impulse, RMul(elt.r, dimpulse)),
               RNeg(friction_limit), friction_limit)

\* A normal update that forgets the max with zero.
NormalImpulse_Unclamped(elt, impulse_scale, dimpulse) ==
    RSub(RMul(elt.impulse, impulse_scale), RMul(elt.r, dimpulse))

\* The new impulse of a normal element.
NormalImpulse(elt, impulse_scale, dimpulse) ==
    RMax(RSub(RMul(elt.impulse, impulse_scale), RMul(elt.r, dimpulse)), RZero)

\* A twist update that forgets the clamp to the twist limit.
TwistImpulse_Unclamped(elt, dimpulse, twist_limit) ==
    RSub(elt.impulse, RMul(elt.r, dimpulse))

\* The new impulse of the twist element.
TwistImpulse(elt, dimpulse, twist_limit) ==
    simd_clamp(RSub(elt.impulse, RMul(elt.r, dimpulse)),
               RNeg(twist_limit), twist_limit)

\* "Solve friction": the loop over the tangent elements, from j.
RECURSIVE SolveFriction(_, _, _, _, _)
SolveFriction(c, mj_lambda2, tangents1, friction_limit, j) ==
    IF j > DIM - 1 THEN [c |-> c, mj |-> mj_lambda2]
    ELSE LET elt == c.tangent_parts[j]
             dimpulse == RAdd(RAdd(RNeg(dot(tangents1[j], mj_lambda2.linear)),
                                   gdot(elt.gcross2, mj_lambda2.angular)),
                              elt.rhs)
             new_impulse == TangentImpulse(elt, dimpulse, friction_limit)
             dlambda == RSub(new_impulse, elt.impulse)
         IN SolveFriction(
                [c EXCEPT !.tangent_parts[j].impulse = new_impulse],
                DeltaVel(VAdd(mj_lambda2.linear,
                              VScale(tangents1[j], RMul(RNeg(c.im2), dlambda))),
                         VAdd(mj_lambda2.angular, VScale(elt.gcross2, dlambda))),
                tangents1, friction_limit, j + 1)

\* "Solve non-penetration": the loop over the active normal elements, from i.
RECURSIVE SolveNonPenetration(_, _, _)
SolveNonPenetration(c, mj_lambda2, i) ==
    IF i > c.num_contacts THEN [c |-> c, mj |-> mj_lambda2]
    ELSE LET elt == c.normal_parts[i]
             dimpulse == RAdd(RAdd(RNeg(dot(c.dir1, mj_lambda2.linear)),
                                   gdot(elt.gcross2, mj_lambda2.angular)),
                              elt.rhs)
             new_impulse == NormalImpulse(elt, c.impulse_scale, dimpulse)
             dlambda == RSub(new_impulse, elt.impulse)
         IN SolveNonPenetration(
                [c EXCEPT !.normal_parts[i].impulse = new_impulse],
                DeltaVel(VAdd(mj_lambda2.linear,
                              VScale(c.dir1, RMul(RNeg(c.im2), dlambda))),
                         VAdd(mj_lambda2.angular, VScale(elt.gcross2, dlambda))),
                i + 1)

\* "Solve twist".
SolveTwist(c, mj_lambda2) ==
    LET twist_limit == TwistLimit(c)
        dimpulse == RAdd(gdot(c.twist_part.gcross2, mj_lambda2.angular),
                         c.twist_part.rhs)
        new_impulse == TwistImpulse(c.twist_part, dimpulse, twist_limit)
        dlambda == RSub(new_impulse, c.twist_part.impulse)
    IN [c |-> [c EXCEPT !.twist_part.impulse = new_impulse],
        mj |-> DeltaVel(mj_lambda2.linear,
                        VAdd(mj_lambda2.angular,
                             VScale(c.twist_part.gcross2, dlambda)))]

\* solve between its read of the slot and its write: the constraint and the
\* local copy mj_lambda2 afterwards.
SolveLocal(c, mj_lambda2) ==
    LET f == SolveFriction(c, mj_lambda2, orthonormal_basis(c.dir1),
                           FrictionLimit(c), 1)
        n == SolveNonPenetration(f.c, f.mj, 1)
    IN SolveTwist(n.c, n.mj)

solve(c, mjl) ==
    LET r == SolveLocal(c, mjl[Slot(c)])
    IN [c |-> r.c, mjl |-> [mjl EXCEPT ![Slot(c)] = r.mj]]

(***************************************************************************)
(* VelocityGroundConstraintWithManifoldFriction::writeback_impulses        *)
(***************************************************************************)
\* The shared tangent impulses written to every point as they are, without
\* the point's share of the normal impulse.
WritebackPoint_Unscaled(c, denom, k) ==
    [impulse |-> At(c.normal_parts, k).impulse,
     tangent_impulse |-> << c.tangent_parts[1].impulse,
                            c.tangent_parts[2].impulse >>]

\* The contact data written to point k_base + k (k is 0-based).
WritebackPoint(c, denom, k) ==
    LET normal_factor == RMul(At(c.normal_parts, k).impulse, denom)
    IN [impulse |-> At(c.normal_parts, k).impulse,
        tangent_impulse |-> << RMul(c.tangent_parts[1].impulse, normal_factor),
                               RMul(c.tangent_parts[2].impulse, normal_factor) >>]

\* The loop over the active contacts, from k.
RECURSIVE WritebackPoints(_, _, _, _)
WritebackPoints(c, points, denom, k) ==
    IF k >= c.num_contacts THEN points
    ELSE WritebackPoints(
            c,
            [points EXCEPT ![c.manifold_contact_id + k + 1].data =
                                WritebackPoint(c, denom, k)],
            denom, k + 1)

writeback_impulses(c, mall) ==
    LET manifold == mall[c.manifold_id]
        denom == inv(NormalImpulseSum(c))
    IN [mall EXCEPT
          ![c.manifold_id] =
              [manifold EXCEPT
                 !.points = WritebackPoints(c, manifold.points, denom, 0),
                 !.data.twist_impulse = c.twist_part.impulse]]

(***************************************************************************)
(* The broad phase around one axis: the proxy table, the calls and the     *)
(* motion of the boxes between calls.                                      *)
(***************************************************************************)
\* The axis this SAPAxis maintains (the `dim` argument, 0 in the source).
AxisDim == 1

\* A box spanning [lo, hi] on the maintained axis and [o, o] on the others.
Box(lo, hi, o) ==
    [mins |-> [d \in 1..DIM |-> IF d = AxisDim THEN lo ELSE o],
     maxs |-> [d \in 1..DIM |-> IF d = AxisDim THEN hi ELSE o]]

Boxes ==
    {Box(lo, hi, o) : lo \in 0..MaxCoord, hi \in 0..MaxCoord, o \in 0..1}

\* Boxes with lower bound <= upper bound on every axis.
ValidBoxes == {b \in Boxes : \A d \in 1..DIM : b.mins[d] <= b.maxs[d]}

ProxyIds == DOMAIN proxies

\* The proxies with an endpoint in the sequence.
OnAxis(eps) == {eps[i].proxy : i \in 1..Len(eps)} \ {PROXY_MASK}

\* The sequences without repetition over a set of proxy ids.
RECURSIVE Arrangements(_)
Arrangements(S) ==
    {<<>>} \cup UNION {{<<p>> \o t : t \in Arrangements(S \ {p})} : p \in S}

SeqSet(s) == {s[i] : i \in 1..Len(s)}

PairwiseDisjoint(prx, S) ==
    \A a \in S : \A b \in S : a # b => ~intersects(prx[a].aabb, prx[b].aabb)

NoCall == [op |-> "new", ok |-> TRUE, new |-> <<>>, reporter |-> FALSE, ret |-> 0]

NoCalls == [calls |-> 0, solves |-> 0]

\* The solver and the workers are not part of the broad-phase specifications.
SolverIdle ==
    /\ params = <<>>
    /\ bodies = <<>>
    /\ manifolds_all = <<>>
    /\ out_constraints = <<>>
    /\ mj_lambdas = <<>>
    /\ ncalls = NoCalls
    /\ slast = <<>>

WorkersIdle ==
    /\ pc = <<>>
    /\ local = <<>>

\* A fresh axis with window [1, MaxCoord - 1] and n proxies not yet inserted,
\* their boxes drawn from B.
InitSAP(n, B) ==
    /\ axis = SAPAxis_new(1, MaxCoord - 1)
    /\ proxies \in [0..(n - 1) -> [aabb : B]]
    /\ existing_proxies = [p \in 0..(n - 1) |-> TRUE]
    /\ reporting = EmptyMap
    /\ last = NoCall
    /\ disjoint_calls = TRUE
    /\ SolverIdle
    /\ WorkersIdle

\* batch_insert(dim, new, proxies, reporting) with new proxies not yet on
\* the axis; `with_reporter` is whether reporting is Some.
BatchInsert(new, with_reporter) ==
    LET r == batch_insert(axis, proxies, AxisDim, new, reporting, with_reporter) IN
    /\ axis' = r.axis
    /\ reporting' = r.reporting
    /\ last' = [op |-> "batch_insert", ok |-> r.ok, new |-> new,
                reporter |-> with_reporter, ret |-> 0]
    /\ UNCHANGED <<proxies, existing_proxies, solver_vars, worker_vars>>

UpdateEndpoints ==
    LET r == update_endpoints(axis, proxies, AxisDim, reporting) IN
    /\ axis' = r.axis
    /\ reporting' = r.reporting
    /\ last' = [NoCall EXCEPT !.op = "update_endpoints"]
    /\ UNCHANGED <<proxies, existing_proxies, solver_vars, worker_vars>>

DeleteOutOfBoundsProxies ==
    LET r == delete_out_of_bounds_proxies(axis, existing_proxies) IN
    /\ existing_proxies' = r.bits
    /\ last' = [NoCall EXCEPT !.op = "delete_out_of_bounds_proxies", !.ret = r.deleted]
    /\ UNCHANGED <<axis, proxies, reporting, disjoint_calls, solver_vars, worker_vars>>

DeleteOutOfBoundsEndpoints ==
    /\ axis' = delete_out_of_bounds_endpoints(axis, existing_proxies)
    /\ last' = [NoCall EXCEPT !.op = "delete_out_of_bounds_endpoints"]
    /\ UNCHANGED <<proxies, existing_proxies, reporting, disjoint_calls,
                   solver_vars, worker_vars>>

\* The broad phase moves a proxy's box between two calls.
Move(p, b) ==
    /\ proxies[p].aabb # b
    /\ proxies' = [proxies EXCEPT ![p].aabb = b]
    /\ last' = [NoCall EXCEPT !.op = "move"]
    /\ UNCHANGED <<axis, existing_proxies, reporting, disjoint_calls,
                   solver_vars, worker_vars>>

\* The history of the reporting calls: whether the boxes of the proxies on
\* the axis were pairwise disjoint at every batch_insert that returned and
\* at every update_endpoints so far.
TrackDisjoint ==
    disjoint_calls' =
        IF \/ last'.op = "update_endpoints"
           \/ last'.op = "batch_insert" /\ last'.ok /\ last'.new # <<>>
        THEN disjoint_calls /\ PairwiseDisjoint(proxies, OnAxis(axis'.endpoints))
        ELSE disjoint_calls

(***************************************************************************)
(* SpecAxis: every call of the axis, in any order, on NProxies proxies     *)
(* that move along the maintained axis (their boxes coincide on the other  *)
(* axes).                                                                  *)
(***************************************************************************)
AxisBoxes == {b \in ValidBoxes : \A d \in 1..DIM : d # AxisDim => b.mins[d] = 0}

InitAxis == InitSAP(NProxies, AxisBoxes)

NextAxis ==
    \/ \E new \in Arrangements(ProxyIds \ OnAxis(axis.endpoints)) :
          \E with_reporter \in BOOLEAN :
             BatchInsert(new, with_reporter) /\ UNCHANGED disjoint_calls
    \/ UpdateEndpoints /\ UNCHANGED disjoint_calls
    \/ DeleteOutOfBoundsProxies
    \/ DeleteOutOfBoundsEndpoints
    \/ \E p \in ProxyIds : \E b \in AxisBoxes : Move(p, b)

SpecAxis == InitAxis /\ [][NextAxis]_vars

(***************************************************************************)
(* SpecReport: the reporting calls (batch_insert with a reporter and       *)
(* update_endpoints) on NProxies proxies that move on every axis, with the *)
(* history of the calls.                                                   *)
(***************************************************************************)
InitReport == InitSAP(NProxies, ValidBoxes)

NextReport ==
    \/ \E new \in Arrangements(ProxyIds \ OnAxis(axis.endpoints)) :
          BatchInsert(new, TRUE) /\ TrackDisjoint
    \/ UpdateEndpoints /\ TrackDisjoint
    \/ \E p \in ProxyIds : \E b \in ValidBoxes : Move(p, b)

SpecReport == InitReport /\ [][NextReport]_vars

(***************************************************************************)
(* SpecTrack: the reporting calls on NProxies proxies that move along the  *)
(* maintained axis only (their boxes coincide on the other axes).          *)
(***************************************************************************)
InitTrack == InitSAP(NProxies, AxisBoxes)

NextTrack ==
    \/ \E new \in Arrangements(ProxyIds \ OnAxis(axis.endpoints)) :
          BatchInsert(new, TRUE) /\ UNCHANGED disjoint_calls
    \/ UpdateEndpoints /\ UNCHANGED disjoint_calls
    \/ \E p \in ProxyIds : \E b \in AxisBoxes : Move(p, b)

SpecTrack == InitTrack /\ [][NextTrack]_vars

(***************************************************************************)
(* SpecInsert: batch_insert calls only, on NInsertProxies proxies at rest. *)
(***************************************************************************)
InitInsert == InitSAP(NInsertProxies, ValidBoxes)

NextInsert ==
    \E new \in Arrangements(ProxyIds \ OnAxis(axis.endpoints)) :
       \E with_reporter \in BOOLEAN :
          BatchInsert(new, with_reporter) /\ UNCHANGED disjoint_calls

SpecInsert == InitInsert /\ [][NextInsert]_vars

(***************************************************************************)
(* The solver around one manifold: the step's parameters, the two bodies,  *)
(* the manifold and the shared buffer.                                     *)
(***************************************************************************)
\* The solver contacts a manifold draws from: point, separation, friction,
\* restitution and the impulses persisted by the previous step. The points
\* lie on one line, so that their distances to the centre are rational.
ContactKinds ==
    << [point |-> V(0, 0, 0), dist |-> R(-1), friction |-> Rat(1, 2),
        restitution |-> RZero,
        data |-> [impulse |-> R(2), tangent_impulse |-> <<R(1), RZero>>]],
       [point |-> V(2, 0, 0), dist |-> R(1), friction |-> R(1),
        restitution |-> R(1),
        data |-> [impulse |-> R(-1), tangent_impulse |-> <<RZero, R(-1)>>]],
       [point |-> V(4, 0, 0), dist |-> RZero, friction |-> RZero,
        restitution |-> RZero,
        data |-> [impulse |-> RZero, tangent_impulse |-> <<RZero, RZero>>]],
       [point |-> V(1, 0, 0), dist |-> R(-2), friction |-> R(-1),
        restitution |-> RZero,
        data |-> [impulse |-> R(1), tangent_impulse |-> <<R(1), R(1)>>]] >>

\* n solver contacts: contact k is of kind (k + shift) mod Len(ContactKinds).
SolverContacts(n, shift) ==
    [k \in 1..n |-> ContactKinds[((k - 1 + shift) % Len(ContactKinds)) + 1]]

\* A manifold between body1 and body2 with n solver contacts; its points
\* are the n active contacts followed by one inactive point.
Manifold(body1, body2, normal, n, shift) ==
    [data |-> [body_pair |-> [body1 |-> body1, body2 |-> body2],
               normal |-> normal,
               solver_contacts |-> SolverContacts(n, shift),
               twist_impulse |-> R(1),
               warmstart_multiplier |-> Rat(1, 2),
               constraint_index |-> 0],
     points |-> [k \in 1..(n + 1) |->
                   [data |-> [impulse |-> R(7), tangent_impulse |-> <<R(7), R(7)>>]]]]

\* A dynamic body addressed to `slot`, with linear velocity linvel.
DynamicBody(slot, linvel) ==
    [is_dynamic |-> TRUE, island_offset |-> slot,
     effective_inv_mass |-> ROne, effective_world_inv_inertia_sqrt |-> ROne,
     linvel |-> linvel, angvel |-> V(0, 1, 0), world_com |-> V(1, 0, 1)]

\* The static or kinematic partner.
GroundBody(slot) ==
    [is_dynamic |-> FALSE, island_offset |-> slot,
     effective_inv_mass |-> RZero, effective_world_inv_inertia_sqrt |-> RZero,
     linvel |-> V(1, 0, 0), angvel |-> VZero, world_com |-> VZero]

\* The parameters of the step; erp, cfm and impulse_scale are what
\* SpringRegularization::erp_cfm_impulse_scale returns for dt.
Params ==
    [dt |-> Rat(1, 2), restitution_velocity_threshold |-> ROne,
     warmstart_coeff |-> ROne,
     erp |-> Rat(1, 2), cfm |-> ROne, impulse_scale |-> Rat(1, 2)]

Normals == {V(0, 0, 1), V(1, 0, 0)}
LinVels == {V(0, 0, -2), V(0, 0, 2)}

\* The buffer the step starts from: slot s holds a velocity of its own.
NSlots == 2
InitBuffer == [s \in 0..(NSlots - 1) |-> DeltaVel(V(s + 1, 0, 0), V(0, 0, s))]

NoSolverCall == [op |-> "none", idx |-> 0]

AxisIdle ==
    /\ axis = <<>>
    /\ proxies = <<>>
    /\ existing_proxies = <<>>
    /\ reporting = <<>>
    /\ last = <<>>
    /\ disjoint_calls = TRUE

(***************************************************************************)
(* SpecSolver: generate, then warmstart, solve and writeback_impulses of   *)
(* the emitted constraints in any order, MaxCalls calls at most.           *)
(***************************************************************************)
InitSolver ==
    /\ params = Params
    /\ \E dyn \in 0..1 : \E linvel \in LinVels : \E normal \in Normals :
       \E n \in 0..MaxContacts : \E shift \in 0..(Len(ContactKinds) - 1) :
          /\ bodies = [b \in 0..1 |-> IF b = dyn THEN DynamicBody(b, linvel)
                                              ELSE GroundBody(b)]
          /\ manifolds_all = <<Manifold(0, 1, normal, n, shift)>>
    /\ out_constraints = <<>>
    /\ mj_lambdas = InitBuffer
    /\ ncalls = NoCalls
    /\ slast = NoSolverCall
    /\ AxisIdle
    /\ WorkersIdle

\* out_constraints after generate stored cs: appended (push), or written
\* over the entries from constraint_index on.
StoreConstraints(out, cs, constraint_index, push) ==
    IF push THEN out \o cs
    ELSE [i \in 1..Len(out) |->
            IF i - 1 >= constraint_index /\ i - 1 < constraint_index + Len(cs)
            THEN cs[i - constraint_index]
            ELSE out[i]]

\* generate(params, manifold_id, manifold, bodies, out_constraints, push):
\* appending on the first call, overwriting in place afterwards.
Generate(manifold_id, push) ==
    LET manifold == manifolds_all[manifold_id]
        cs == generate(params, manifold_id, manifold, bodies) IN
    /\ ncalls.calls < MaxCalls
    /\ push <=> out_constraints = <<>>
    /\ push \/ Len(out_constraints) >= manifold.data.constraint_index + Len(cs)
    /\ out_constraints' = StoreConstraints(out_constraints, cs,
                                           manifold.data.constraint_index, push)
    /\ ncalls' = [ncalls EXCEPT !.calls = @ + 1]
    /\ slast' = [op |-> "generate", idx |-> 0]
    /\ UNCHANGED <<params, bodies, manifolds_all, mj_lambdas, sap_vars, worker_vars>>

Warmstart(i) ==
    /\ ncalls.calls < MaxCalls
    /\ mj_lambdas' = warmstart(out_constraints[i], mj_lambdas)
    /\ ncalls' = [ncalls EXCEPT !.calls = @ + 1]
    /\ slast' = [op |-> "warmstart", idx |-> i]
    /\ UNCHANGED <<params, bodies, manifolds_all, out_constraints, sap_vars, worker_vars>>

Solve(i) ==
    LET r == solve(out_constraints[i], mj_lambdas) IN
    /\ ncalls.calls < MaxCalls
    /\ ncalls.solves < MaxSolves
    /\ out_constraints' = [out_constraints EXCEPT ![i] = r.c]
    /\ mj_lambdas' = r.mjl
    /\ ncalls' = [calls |-> ncalls.calls + 1, solves |-> ncalls.solves + 1]
    /\ slast' = [op |-> "solve", idx |-> i]
    /\ UNCHANGED <<params, bodies, manifolds_all, sap_vars, worker_vars>>

WritebackImpulses(i) ==
    /\ ncalls.calls < MaxCalls
    /\ manifolds_all' = writeback_impulses(out_constraints[i], manifolds_all)
    /\ ncalls' = [ncalls EXCEPT !.calls = @ + 1]
    /\ slast' = [op |-> "writeback_impulses", idx |-> i]
    /\ UNCHANGED <<params, bodies, out_constraints, mj_lambdas, sap_vars, worker_vars>>

NextSolver ==
    \/ \E push \in BOOLEAN : Generate(1, push)
    \/ \E i \in 1..Len(out_constraints) : Warmstart(i)
    \/ \E i \in 1..Len(out_constraints) : Solve(i)
    \/ \E i \in 1..Len(out_constraints) : WritebackImpulses(i)

SpecSolver == InitSolver /\ [][NextSolver]_vars

(***************************************************************************)
(* SpecConc: two workers, each running warmstart and then solve calls of   *)
(* its own constraint; the two constraints address different slots of the  *)
(* shared buffer. A call is two steps: the read of the slot and the write  *)
(* that ends the call.                                                     *)
(***************************************************************************)
Workers == 1..2

\* The constraint worker w runs: the one generate emitted for manifold w.
WorkerConstraint(w) == out_constraints[w]

\* The constraints generate emits for the two manifolds of the run.
GeneratedConstraints ==
    generate(params, 1, manifolds_all[1], bodies)
        \o generate(params, 2, manifolds_all[2], bodies)

WorkerStart == [at |-> "idle", warmstarted |-> FALSE, solves |-> 0]

InitConc ==
    /\ params = Params
    /\ \E linvel \in LinVels : \E normal \in Normals :
       \E n1, n2 \in 1..2 : \E shift \in 0..(Len(ContactKinds) - 1) :
          /\ bodies = [b \in 0..2 |-> IF b = 2 THEN GroundBody(b)
                                      ELSE DynamicBody(b, linvel)]
          /\ manifolds_all = << Manifold(2, 0, normal, n1, shift),
                                Manifold(1, 2, normal, n2, shift + 1) >>
    /\ out_constraints = GeneratedConstraints
    /\ mj_lambdas = InitBuffer
    /\ ncalls = NoCalls
    /\ slast = NoSolverCall
    /\ pc = [w \in Workers |-> WorkerStart]
    /\ local = [w \in Workers |-> DeltaVel_zero]
    /\ AxisIdle

\* warmstart, first step: the read of the slot by its final `+=`.
WarmstartRead(w) ==
    /\ pc[w] = WorkerStart
    /\ local' = [local EXCEPT ![w] = mj_lambdas[Slot(WorkerConstraint(w))]]
    /\ pc' = [pc EXCEPT ![w].at = "warmstart"]
    /\ UNCHANGED <<sap_vars, solver_vars>>

\* warmstart, second step: the write of the slot.
WarmstartWrite(w) ==
    LET c == WorkerConstraint(w)
        d == WarmstartDelta(c) IN
    /\ pc[w].at = "warmstart"
    /\ mj_lambdas' = [mj_lambdas EXCEPT
          ![Slot(c)] = DeltaVel(VAdd(local[w].linear, d.linear),
                                VAdd(local[w].angular, d.angular))]
    /\ pc' = [pc EXCEPT ![w] = [@ EXCEPT !.at = "idle", !.warmstarted = TRUE]]
    /\ slast' = [op |-> "warmstart", idx |-> w]
    /\ UNCHANGED <<params, bodies, manifolds_all, out_constraints, ncalls,
                   local, sap_vars>>

\* solve, first step: the read of the slot into the local mj_lambda2.
SolveRead(w) ==
    /\ pc[w].at = "idle"
    /\ pc[w].solves < MaxSolves
    /\ local' = [local EXCEPT ![w] = mj_lambdas[Slot(WorkerConstraint(w))]]
    /\ pc' = [pc EXCEPT ![w].at = "solve"]
    /\ UNCHANGED <<sap_vars, solver_vars>>

\* solve, second step: the updates of the impulses and the write of the slot.
SolveWrite(w) ==
    LET c == WorkerConstraint(w)
        r == SolveLocal(c, local[w]) IN
    /\ pc[w].at = "solve"
    /\ out_constraints' = [out_constraints EXCEPT ![w] = r.c]
    /\ mj_lambdas' = [mj_lambdas EXCEPT ![Slot(c)] = r.mj]
    /\ pc' = [pc EXCEPT ![w] = [@ EXCEPT !.at = "idle", !.solves = @ + 1]]
    /\ slast' = [op |-> "solve", idx |-> w]
    /\ UNCHANGED <<params, bodies, manifolds_all, ncalls, local, sap_vars>>

NextConc ==
    \E w \in Workers :
        \/ WarmstartRead(w)
        \/ WarmstartWrite(w)
        \/ SolveRead(w)
        \/ SolveWrite(w)

SpecConc == InitConc /\ [][NextConc]_vars

(***************************************************************************)
(* The claims.                                                             *)
(***************************************************************************)
Sorted(eps) == \A i \in 1..(Len(eps) - 1) : eps[i].value <= eps[i + 1].value

\* C1: after any sequence of batch_insert, update_endpoints and
\* delete_out_of_bounds_endpoints calls (and delete_out_of_bounds_proxies
\* calls and motion of the boxes between them), the endpoint sequence is
\* sorted ascending by value, starts with the start sentinel and ends with
\* the end sentinel.
C1_SortedWithSentinels ==
    /\ Sorted(axis.endpoints)
    /\ Len(axis.endpoints) >= 2
    /\ axis.endpoints[1] = start_sentinel
    /\ axis.endpoints[Len(axis.endpoints)] = end_sentinel

\* C1's case: update_endpoints has just re-sorted an axis that holds every
\* proxy, proxy 1 having moved in front of proxy 0, after a
\* delete_out_of_bounds_proxies call cleared a bit.
C1_Witness ==
    /\ last.op = "update_endpoints"
    /\ Len(axis.endpoints) = 2 * NProxies + 2
    /\ axis.endpoints[2].proxy = 1
    /\ axis.endpoints[2].value < axis.endpoints[3].value
    /\ axis.endpoints[3].proxy = 0
    /\ \E p \in ProxyIds : ~existing_proxies[p]

(***************************************************************************)
(* The contact constraint: impulses after solve.                           *)
(***************************************************************************)
\* The constraint the last solver call worked on.
LastConstraint == out_constraints[slast.idx]

\* The solver contacts of the manifold (the warmstart seeds among them).
Seeds == manifolds_all[1].data.solver_contacts

\* C2: after each solve call, and so after any number of them, the impulse
\* of every normal element of the solved constraint, active or unused, is
\* >= 0, whatever the sign of the warmstart seeds and of the bias terms.
C2_NormalImpulsesNonNegative ==
    slast.op = "solve" =>
        \A k \in 1..MAX_MANIFOLD_POINTS :
            RLe(RZero, LastConstraint.normal_parts[k].impulse)

\* C2's case: the second solve call of a run has acted on a constraint with
\* an unused element, a negative seed and a negative bias term, and left
\* one active normal impulse at zero and another above zero.
C2_Witness ==
    /\ slast.op = "solve"
    /\ ncalls.solves = 2
    /\ LastConstraint.num_contacts < MAX_MANIFOLD_POINTS
    /\ \E k \in 1..Len(Seeds) : RLt(Seeds[k].data.impulse, RZero)
    /\ \E k \in 1..LastConstraint.num_contacts :
          RLt(LastConstraint.normal_parts[k].rhs, RZero)
    /\ \E k, l \in 1..LastConstraint.num_contacts :
          /\ LastConstraint.normal_parts[k].impulse = RZero
          /\ RLt(RZero, LastConstraint.normal_parts[l].impulse)

\* A step of the run that is a solve call.
SolveStep == ncalls'.solves = ncalls.solves + 1

\* C3 (amended): for a constraint with friction coefficient >= 0, after
\* every solve call the absolute value of each tangent impulse is at most
\* the absolute value of the friction coefficient times the sum of the
\* normal impulses as they stood when that call began.
C3_TangentWithinLimitAtCallStart ==
    [][SolveStep /\ RLe(RZero, out_constraints[slast'.idx].limit) =>
          \A j \in 1..(DIM - 1) :
              RLe(RAbs(out_constraints'[slast'.idx].tangent_parts[j].impulse),
                  RAbs(FrictionLimit(out_constraints[slast'.idx])))]_vars

\* C3's case: a solve call on a constraint with a positive friction
\* coefficient has left a tangent impulse that is not zero and exceeds the
\* coefficient times the sum of the normal impulses the call left.
C3_Witness ==
    /\ slast.op = "solve"
    /\ RLt(RZero, LastConstraint.limit)
    /\ \E j \in 1..(DIM - 1) :
          /\ LastConstraint.tangent_parts[j].impulse # RZero
          /\ RLt(FrictionLimit(LastConstraint),
                 RAbs(LastConstraint.tangent_parts[j].impulse))

\* C3 as stated: after every solve call on a constraint with friction
\* coefficient >= 0, each tangent impulse is at most the coefficient times
\* the sum of the normal impulses as they stand after that same call.
C3_TangentWithinLimitAfterCall ==
    (slast.op = "solve" /\ RLe(RZero, LastConstraint.limit)) =>
        \A j \in 1..(DIM - 1) :
            RLe(RAbs(LastConstraint.tangent_parts[j].impulse),
                FrictionLimit(LastConstraint))

\* C4: for a constraint with friction coefficient >= 0, after every solve
\* call the absolute value of the twist impulse is at most the coefficient
\* times the sum over the normal elements of (normal impulse after that
\* call x twist weight).
C4_TwistWithinLimit ==
    (slast.op = "solve" /\ RLe(RZero, LastConstraint.limit)) =>
        RLe(RAbs(LastConstraint.twist_part.impulse), TwistLimit(LastConstraint))

\* C4's case: a solve call on a constraint with a positive friction
\* coefficient has clamped the twist impulse to a twist limit that is not
\* zero.
C4_Witness ==
    /\ slast.op = "solve"
    /\ RLt(RZero, LastConstraint.limit)
    /\ RLt(RZero, TwistLimit(LastConstraint))
    /\ RAbs(LastConstraint.twist_part.impulse) = TwistLimit(LastConstraint)

(***************************************************************************)
(* The axis: what the reporting calls record.                              *)
(***************************************************************************)
\* The keys of the pairs of a set of proxies: (smaller id, larger id).
PairsOf(S) == {<<a, b>> \in S \X S : a < b}

PairwiseIntersecting(prx, S) ==
    \A a \in S : \A b \in S : intersects(prx[a].aabb, prx[b].aabb)

\* The map holds exactly the pairs of S, each mapped to true.
AllTrue(rep, S) ==
    /\ DOMAIN rep = PairsOf(S)
    /\ \A k \in DOMAIN rep : rep[k] = TRUE

\* A step that is a batch_insert call with a reporter that returned.
ReportingInsertStep ==
    /\ last'.op = "batch_insert"
    /\ last'.ok
    /\ last'.reporter
    /\ last'.new # <<>>

\* C5: when N proxies whose boxes pairwise intersect (touching bounds
\* included) are inserted by batch_insert with a reporter, in any order,
\* the map ends with exactly the C(N,2) pairs (smaller id, larger id), each
\* mapped to true.
C5_AllPairsReported ==
    [][(/\ ReportingInsertStep
        /\ AllTrue(reporting, OnAxis(axis.endpoints))
        /\ PairwiseIntersecting(proxies, OnAxis(axis'.endpoints)))
       => AllTrue(reporting', OnAxis(axis'.endpoints))]_vars

\* C6: batch_insert with a reporter records as true the pair of a new
\* proxy and any proxy on the axis whose box intersects its box; once the
\* boxes of a pair recorded as true no longer intersect, the next
\* update_endpoints call records the pair as false.
C6_TrueThenFalse ==
    [][/\ ReportingInsertStep =>
            \A a \in SeqSet(last'.new) :
               \A b \in OnAxis(axis'.endpoints) \ {a} :
                  intersects(proxies[a].aabb, proxies[b].aabb) =>
                     /\ sort2(a, b) \in DOMAIN reporting'
                     /\ reporting'[sort2(a, b)] = TRUE
       /\ last'.op = "update_endpoints" =>
            \A k \in DOMAIN reporting :
               (reporting[k] = TRUE
                  /\ ~intersects(proxies[k[1]].aabb, proxies[k[2]].aabb)) =>
                     reporting'[k] = FALSE]_vars

\* C7 (amended): while the boxes of the proxies on the axis are pairwise
\* disjoint at every batch_insert with a reporter and at every
\* update_endpoints call, the map holds no pair mapped to true
\* (update_endpoints may record pairs as false).
C7_NoPairReportedTrue ==
    disjoint_calls => \A k \in DOMAIN reporting : reporting[k] = FALSE

\* C7's case: batch_insert with a reporter and then update_endpoints have
\* run on all the proxies, their boxes disjoint at each call, and
\* update_endpoints has recorded a pair as false.
C7_Witness ==
    /\ disjoint_calls
    /\ last.op = "update_endpoints"
    /\ OnAxis(axis.endpoints) = ProxyIds
    /\ reporting # EmptyMap

\* C7 as stated: under the same condition the map receives no entry at all.
C7_NoEntryAtAll ==
    disjoint_calls => DOMAIN reporting = {}

\* The lower and the upper bound of proxy p on the maintained axis lie
\* within the window of the axis.
BoundsWithinWindow(p) ==
    /\ axis.min_bound <= proxies[p].aabb.mins[AxisDim]
    /\ proxies[p].aabb.maxs[AxisDim] <= axis.max_bound

\* The box of proxy p meets the window of the axis on the maintained axis.
MeetsWindow(p) ==
    /\ proxies[p].aabb.mins[AxisDim] <= axis.max_bound
    /\ proxies[p].aabb.maxs[AxisDim] >= axis.min_bound

\* C8 (amended): batch_insert fails an assertion exactly when some new
\* proxy lies wholly outside the window (its lower bound above max_bound
\* or its upper bound below min_bound); it returns normally when every new
\* proxy meets the window, also when a bound of it lies outside.
C8_AssertsWhenBoxMissesWindow ==
    last.op = "batch_insert" =>
        (last.ok <=> \A p \in SeqSet(last.new) : MeetsWindow(p))

\* C8's case: a batch_insert call of several proxies returned although a
\* bound of one of them lies outside the window.
C8_Witness ==
    /\ last.op = "batch_insert"
    /\ last.ok
    /\ Len(last.new) > 1
    /\ \E p \in SeqSet(last.new) : ~BoundsWithinWindow(p)

\* C8 as stated: batch_insert returns normally only when every bound of
\* every new proxy lies within [min_bound, max_bound].
C8_AssertsWhenBoundOutsideWindow ==
    last.op = "batch_insert" =>
        (last.ok <=> \A p \in SeqSet(last.new) : BoundsWithinWindow(p))

(***************************************************************************)
(* The contact constraint: the unused elements.                            *)
(***************************************************************************)
\* The normal elements of c at index >= num_contacts hold a zero impulse.
UnusedImpulsesZero(c) ==
    \A k \in (c.num_contacts + 1)..MAX_MANIFOLD_POINTS :
        c.normal_parts[k].impulse = RZero

\* The points of the manifold the constraint c stands for (1-based).
ChunkPoints(c) ==
    (c.manifold_contact_id + 1)..(c.manifold_contact_id + c.num_contacts)

\* A writeback_impulses step leaves every point outside the chunk of its
\* constraint as it was.
WritebackStaysInChunk ==
    slast'.op = "writeback_impulses" =>
        LET c == out_constraints[slast'.idx] IN
        /\ Len(manifolds_all'[c.manifold_id].points) =
              Len(manifolds_all[c.manifold_id].points)
        /\ \A k \in 1..Len(manifolds_all[c.manifold_id].points) :
              k \notin ChunkPoints(c) =>
                 manifolds_all'[c.manifold_id].points[k] =
                    manifolds_all[c.manifold_id].points[k]

\* C9: the impulse of every normal element at index >= num_contacts is zero
\* after generate and stays zero through any sequence of warmstart, solve
\* and writeback_impulses calls, and writeback_impulses writes to no
\* manifold point beyond the num_contacts points of the chunk.
C9_UnusedStayZero ==
    /\ [](\A i \in 1..Len(out_constraints) : UnusedImpulsesZero(out_constraints[i]))
    /\ [][WritebackStaysInChunk]_vars

\* C9's case: writeback_impulses has run, after a solve call, on a
\* constraint with fewer than MAX_MANIFOLD_POINTS contacts that follows a
\* full one, and has written to the point of its chunk.
C9_Witness ==
    /\ slast.op = "writeback_impulses"
    /\ ncalls.solves > 0
    /\ slast.idx = 2
    /\ LastConstraint.num_contacts < MAX_MANIFOLD_POINTS
    /\ \E k \in ChunkPoints(LastConstraint) :
          manifolds_all[1].points[k].data.impulse # R(7)

(***************************************************************************)
(* The contact constraint: the slot of the shared buffer.                  *)
(***************************************************************************)
\* k solve calls of constraint i, one after the other.
RECURSIVE SolveTimes(_, _, _)
SolveTimes(st, i, k) ==
    IF k = 0 THEN st
    ELSE LET r == solve(st.cs[i], st.mjl)
         IN SolveTimes([cs |-> [st.cs EXCEPT ![i] = r.c], mjl |-> r.mjl], i, k - 1)

\* The calls worker w has completed, run alone from the state st.
RunAlone(st, w) ==
    SolveTimes(IF pc[w].warmstarted
               THEN [st EXCEPT !.mjl = warmstart(st.cs[w], st.mjl)]
               ELSE st,
               w, pc[w].solves)

\* The state after the completed calls of worker 1 and then those of
\* worker 2, run one after the other from the start of the run.
Sequential == RunAlone(RunAlone([cs |-> GeneratedConstraints, mjl |-> InitBuffer], 1), 2)

\* Between calls, the buffer and both constraints are as after the
\* sequential run.
InterleavedEqualsSequential ==
    (\A w \in Workers : pc[w].at = "idle") =>
        /\ out_constraints = Sequential.cs
        /\ mj_lambdas = Sequential.mjl

\* A write of worker w changes no slot but the one at the index its
\* constraint holds, and no constraint but its own.
OnlyOwnSlotWritten ==
    \A w \in Workers :
        (pc[w].at # "idle" /\ pc'[w].at = "idle") =>
            /\ \A s \in DOMAIN mj_lambdas :
                  s # out_constraints[w].mj_lambda2 => mj_lambdas'[s] = mj_lambdas[s]
            /\ \A v \in Workers \ {w} : out_constraints'[v] = out_constraints[v]

\* C10: warmstart and solve write only the slot at the constraint's own
\* index; for two constraints addressed to different slots, every
\* interleaving of the reads and writes of their warmstart and solve calls
\* leaves the buffer and both constraints as running the calls one after
\* the other does.
C10_DifferentSlotsCommute ==
    /\ []InterleavedEqualsSequential
    /\ [][OnlyOwnSlotWritten]_vars

\* C10's case: both workers have warmstarted and solved MaxSolves times on
\* different slots, worker 2 ending last, and the last solve call of each
\* changed its slot.
C10_Witness ==
    /\ \A w \in Workers :
          pc[w] = [at |-> "idle", warmstarted |-> TRUE, solves |-> MaxSolves]
    /\ slast = [op |-> "solve", idx |-> 2]
    /\ local[2] # mj_lambdas[out_constraints[2].mj_lambda2]
    /\ local[1] # mj_lambdas[out_constraints[1].mj_lambda2]
    /\ out_constraints[1].mj_lambda2 # out_constraints[2].mj_lambda2

(***************************************************************************)
(* The axis: delete_out_of_bounds_proxies.                                 *)
(***************************************************************************)
\* A step that is a delete_out_of_bounds_proxies call.
DeleteProxiesStep ==
    /\ last'.op = "delete_out_of_bounds_proxies"
    /\ UNCHANGED <<axis, proxies, reporting>>

\* C11: a delete_out_of_bounds_proxies call that directly follows another
\* one, on the same axis and bitset, returns 0 and clears no bit, whatever
\* the first call returned.
C11_SecondDeleteReturnsZero ==
    [][(DeleteProxiesStep /\ last.op = "delete_out_of_bounds_proxies") =>
          /\ last'.ret = 0
          /\ existing_proxies' = existing_proxies]_vars

\* C11's case: a delete_out_of_bounds_proxies call has returned 0 on an
\* axis that holds, out of its window, both endpoints of a proxy whose bit
\* an earlier call cleared, and an in-window proxy whose bit is set.
C11_Witness ==
    /\ last.op = "delete_out_of_bounds_proxies"
    /\ last.ret = 0
    /\ \E p \in ProxyIds :
          /\ ~existing_proxies[p]
          /\ \E i \in 1..Len(axis.endpoints) :
                /\ axis.endpoints[i].proxy = p
                /\ is_end(axis.endpoints[i])
                /\ axis.endpoints[i].value < axis.min_bound
    /\ \E q \in ProxyIds : existing_proxies[q] /\ q \in OnAxis(axis.endpoints)

(***************************************************************************)
(* The contact constraint: what writeback_impulses stores.                 *)
(***************************************************************************)
\* The points of manifold m after the step.
PointsAfter(m) == manifolds_all'[m].points

\* The sum over the points of the chunk of c of the tangent impulse j the
\* step left in them.
WrittenTangentSum(c, j) ==
    RSum([k \in 1..c.num_contacts |->
            PointsAfter(c.manifold_id)[c.manifold_contact_id + k].data.tangent_impulse[j]])

\* A warmstart call.
WarmstartStep == slast'.op = "warmstart" /\ ncalls'.calls = ncalls.calls + 1

\* A writeback_impulses call of the constraint the call before it
\* warmstarted, no solve call having run.
WritebackAfterWarmstart ==
    /\ slast.op = "warmstart"
    /\ slast'.op = "writeback_impulses"
    /\ slast'.idx = slast.idx
    /\ ncalls'.calls = ncalls.calls + 1
    /\ ncalls.solves = 0

\* writeback_impulses stored every normal impulse of c and its twist impulse.
NormalAndTwistStored(c) ==
    /\ \A k \in 1..c.num_contacts :
          PointsAfter(c.manifold_id)[c.manifold_contact_id + k].data.impulse =
             c.normal_parts[k].impulse
    /\ manifolds_all'[c.manifold_id].data.twist_impulse = c.twist_part.impulse

\* C12 (amended): warmstart leaves every impulse of the constraint as it
\* was; writeback_impulses then stores each active normal impulse, the
\* twist impulse, and tangent impulses that add up, per direction, to the
\* shared tangent impulse when the sum of the normal impulses is not zero,
\* and that are all zero when it is.
C12_WarmstartWritebackReproduces ==
    [][/\ WarmstartStep => out_constraints' = out_constraints
       /\ WritebackAfterWarmstart =>
             LET c == out_constraints[slast'.idx] IN
             /\ NormalAndTwistStored(c)
             /\ \A j \in 1..(DIM - 1) :
                   WrittenTangentSum(c, j) =
                      IF NormalImpulseSum(c) = RZero THEN RZero
                      ELSE c.tangent_parts[j].impulse]_vars

\* C12's case: writeback_impulses has run after warmstart and no solve call
\* on a constraint of several contacts whose normal impulses do not add up
\* to zero and whose shared tangent impulse is not zero.
C12_Witness ==
    /\ slast.op = "writeback_impulses"
    /\ ncalls.solves = 0
    /\ ncalls.calls = 3
    /\ mj_lambdas # InitBuffer
    /\ LastConstraint.num_contacts > 1
    /\ NormalImpulseSum(LastConstraint) # RZero
    /\ LastConstraint.tangent_parts[1].impulse # RZero
    /\ manifolds_all[1].points[LastConstraint.manifold_contact_id + 1].data.tangent_impulse[1]
          # R(7)

\* C12 as stated: the tangent impulses writeback_impulses stores add up to
\* the shared tangent impulse in every case.
C12_TangentSumAlwaysReproduced ==
    [][WritebackAfterWarmstart =>
          LET c == out_constraints[slast'.idx] IN
          /\ NormalAndTwistStored(c)
          /\ \A j \in 1..(DIM - 1) :
                WrittenTangentSum(c, j) = c.tangent_parts[j].impulse]_vars

(***************************************************************************)
(* The contact constraint: which body generate solves.                     *)
(***************************************************************************)
\* The same two bodies with the roles of body1 and body2 exchanged.
MirroredBodies == [b \in DOMAIN bodies |-> bodies[1 - b]]

\* Constraint i solves the dynamic body of its manifold, with the
\* direction the position of that body calls for.
SolvesDynamicBody(i) ==
    LET c == out_constraints[i]
        manifold == manifolds_all[c.manifold_id]
        b1 == bodies[manifold.data.body_pair.body1]
        b2 == bodies[manifold.data.body_pair.body2]
        dynamic == IF b2.is_dynamic THEN b2 ELSE b1
        mirrored == GenerateChunk(params, c.manifold_id, manifold,
                                  MirroredBodies, i - 1)
    IN /\ c.mj_lambda2 = dynamic.island_offset
       /\ c.im2 = dynamic.effective_inv_mass
       /\ c.dir1 = IF b2.is_dynamic THEN VNeg(manifold.data.normal)
                                    ELSE manifold.data.normal
       /\ mirrored.mj_lambda2 = dynamic.island_offset
       /\ mirrored.im2 = dynamic.effective_inv_mass
       /\ mirrored.dir1 = VNeg(c.dir1)

\* C13: for a manifold with exactly one dynamic body, the slot and the
\* inverse mass of every constraint generate emits are those of the dynamic
\* body, be it body1 or body2, and the direction stored when the roles are
\* swapped is the negation of the one stored for the same normal when they
\* are not.
C13_SolvesTheDynamicBody ==
    \A i \in 1..Len(out_constraints) : SolvesDynamicBody(i)

\* C13's case: generate has emitted two constraints for a manifold whose
\* body1 is the dynamic body: the roles were swapped.
C13_Witness ==
    /\ slast.op = "generate"
    /\ Len(out_constraints) = 2
    /\ bodies[manifolds_all[1].data.body_pair.body1].is_dynamic
    /\ ~bodies[manifolds_all[1].data.body_pair.body2].is_dynamic
    /\ out_constraints[2].dir1 = manifolds_all[1].data.normal
    /\ out_constraints[2].mj_lambda2 = bodies[manifolds_all[1].data.body_pair.body1].island_offset

(***************************************************************************)
(* The axis: batch_insert as a merge.                                      *)
(***************************************************************************)
\* A batch_insert call that returned.
InsertStep ==
    /\ last'.op = "batch_insert"
    /\ last'.ok

\* The positions of the endpoint (proxy p, start or end) in eps.
PositionsOf(eps, p, start) ==
    {i \in 1..Len(eps) : eps[i].proxy = p /\ eps[i].start = start}

\* The endpoints of eps that do not belong to the proxies of S, in order.
Without(eps, S) == SelectSeq(eps, LAMBDA e : e.proxy \notin S)

\* eps2 is eps1 with exactly one start and one end endpoint per proxy of
\* new merged in, at the proxy's bounds.
MergedInto(eps1, eps2, new) ==
    /\ Len(eps2) = Len(eps1) + 2 * Len(new)
    /\ Without(eps2, SeqSet(new)) = eps1
    /\ \A p \in SeqSet(new) :
          /\ \E i \in 1..Len(eps2) :
                /\ PositionsOf(eps2, p, TRUE) = {i}
                /\ eps2[i].value = proxies[p].aabb.mins[AxisDim]
          /\ \E i \in 1..Len(eps2) :
                /\ PositionsOf(eps2, p, FALSE) = {i}
                /\ eps2[i].value = proxies[p].aabb.maxs[AxisDim]

\* C14: a batch_insert of k distinct new proxies that returns leaves on the
\* axis the endpoints it held, with their values and in their order, plus
\* one start endpoint at the lower bound and one end endpoint at the upper
\* bound of each new proxy, 2k more endpoints in all; with an empty list it
\* changes neither the axis nor the map.
C14_InsertIsAMerge ==
    [][InsertStep =>
          /\ MergedInto(axis.endpoints, axis'.endpoints, last'.new)
          /\ axis'.min_bound = axis.min_bound
          /\ axis'.max_bound = axis.max_bound
          /\ last'.new = <<>> => (axis' = axis /\ reporting' = reporting)]_vars

\* C14's case: one proxy has been merged into an axis that held another,
\* and its start endpoint landed between the endpoints of the other.
C14_Witness ==
    /\ last.op = "batch_insert"
    /\ last.ok
    /\ Len(last.new) = 1
    /\ Len(axis.endpoints) = 6
    /\ \E i \in 2..4 :
          /\ axis.endpoints[i].proxy # last.new[1]
          /\ axis.endpoints[i + 1].proxy = last.new[1]
          /\ is_start(axis.endpoints[i + 1])
          /\ axis.endpoints[i + 2].proxy # last.new[1]
          /\ ~is_sentinel(axis.endpoints[i + 2])
          /\ axis.endpoints[i + 1].value < axis.endpoints[i + 2].value

(***************************************************************************)
(* The axis: update_endpoints permutes and refreshes.                      *)
(***************************************************************************)
UpdateStep == last'.op = "update_endpoints"

\* eps2 holds each endpoint (proxy, start or end) as many times as eps1.
SameEndpoints(eps1, eps2) ==
    /\ Len(eps2) = Len(eps1)
    /\ \A p \in ProxyIds \cup {PROXY_MASK} : \A start \in BOOLEAN :
          Cardinality(PositionsOf(eps2, p, start)) =
          Cardinality(PositionsOf(eps1, p, start))

\* Every endpoint between the sentinels carries the live bound of its proxy.
Refreshed(eps) ==
    \A i \in 2..(Len(eps) - 1) :
       /\ ~is_sentinel(eps[i])
       /\ eps[i].value = IF is_start(eps[i])
                         THEN proxies[eps[i].proxy].aabb.mins[AxisDim]
                         ELSE proxies[eps[i].proxy].aabb.maxs[AxisDim]

SentinelsAtTheEnds(eps) ==
    /\ eps[1] = start_sentinel
    /\ eps[Len(eps)] = end_sentinel

\* C15: update_endpoints leaves on the axis the same endpoints (proxy,
\* start or end), as many as before, every start endpoint at the current
\* lower bound and every end endpoint at the current upper bound of its
\* proxy, and the two sentinels at the two ends, however the proxies moved.
C15_UpdatePermutesAndRefreshes ==
    [][UpdateStep =>
          /\ SameEndpoints(axis.endpoints, axis'.endpoints)
          /\ Refreshed(axis'.endpoints)
          /\ SentinelsAtTheEnds(axis'.endpoints)
          /\ axis'.min_bound = axis.min_bound
          /\ axis'.max_bound = axis.max_bound]_vars

\* C15's case: update_endpoints has run on an axis with two proxies and
\* carried the end endpoint of one past the start endpoint of the other:
\* proxy 1 lies wholly before proxy 0 and the pair is reported as no longer
\* overlapping.
C15_Witness ==
    /\ last.op = "update_endpoints"
    /\ Len(axis.endpoints) = 6
    /\ axis.endpoints[2].proxy = 1
    /\ axis.endpoints[3].proxy = 1
    /\ axis.endpoints[3].value < axis.endpoints[4].value
    /\ <<0, 1>> \in DOMAIN reporting
    /\ ~reporting[<<0, 1>>]

(***************************************************************************)
(* The axis: what delete_out_of_bounds_proxies removes.                    *)
(***************************************************************************)
\* Proxy p has its bit set in bits and, on the axis, an end endpoint stored
\* below min_bound or a start endpoint stored above max_bound.
OutOfBounds(ax, bits, p) ==
    /\ bits[p]
    /\ \E i \in 1..Len(ax.endpoints) :
          /\ ax.endpoints[i].proxy = p
          /\ \/ is_end(ax.endpoints[i]) /\ ax.endpoints[i].value < ax.min_bound
             \/ is_start(ax.endpoints[i]) /\ ax.endpoints[i].value > ax.max_bound

\* C16: on the sorted axis, delete_out_of_bounds_proxies clears the bits of
\* exactly the proxies with a set bit whose stored end endpoint is below
\* min_bound or whose stored start endpoint is above max_bound, leaves the
\* other bits and the axis as they were, and returns the number of bits it
\* cleared.
C16_DeletesExactlyOutOfBounds ==
    [][last'.op = "delete_out_of_bounds_proxies" =>
          /\ Sorted(axis.endpoints)
          /\ existing_proxies' =
                [p \in ProxyIds |->
                    existing_proxies[p] /\ ~OutOfBounds(axis, existing_proxies, p)]
          /\ axis' = axis
          /\ last'.ret = Cardinality({p \in ProxyIds :
                                         existing_proxies[p] /\ ~existing_proxies'[p]})]_vars

\* C16's case: the call has removed two proxies, one lying below the window
\* and one above, while their endpoints are still on the axis.
C16_Witness ==
    /\ last.op = "delete_out_of_bounds_proxies"
    /\ last.ret = 2
    /\ Len(axis.endpoints) = 6
    /\ is_end(axis.endpoints[3])
    /\ axis.endpoints[3].value < axis.min_bound
    /\ is_start(axis.endpoints[4])
    /\ axis.endpoints[4].value > axis.max_bound
    /\ \A p \in ProxyIds : ~existing_proxies[p]

(***************************************************************************)
(* The contact constraint: writeback_impulses shares out the tangent       *)
(* impulses.                                                               *)
(***************************************************************************)
\* The sum of the normal impulses of all the elements of c.
AllNormalImpulses(c) ==
    RSum([k \in 1..MAX_MANIFOLD_POINTS |-> c.normal_parts[k].impulse])

\* The tangent impulse j stored in the point of contact k (1-based) of c.
StoredTangent(c, k, j) ==
    manifolds_all[c.manifold_id].points[c.manifold_contact_id + k].data.tangent_impulse[j]

\* C17: after writeback_impulses, for every active contact k and tangent
\* direction j, the tangent impulse stored in point k times the sum of the
\* normal impulses equals the shared tangent impulse j times the normal
\* impulse k when that sum is not zero, and the stored tangent impulse is
\* zero when it is (in exact arithmetic).
C17_TangentSharedInProportion ==
    slast.op = "writeback_impulses" =>
       LET c == out_constraints[slast.idx] IN
       \A k \in 1..c.num_contacts : \A j \in 1..(DIM - 1) :
          IF AllNormalImpulses(c) = RZero
          THEN StoredTangent(c, k, j) = RZero
          ELSE RMul(StoredTangent(c, k, j), AllNormalImpulses(c)) =
               RMul(c.tangent_parts[j].impulse, c.normal_parts[k].impulse)

\* C17's case: writeback_impulses has run on a constraint of several
\* contacts with different normal impulses, a sum that is not zero and a
\* shared tangent impulse that is not zero, and stored different shares in
\* two of its points.
C17_Witness ==
    /\ slast.op = "writeback_impulses"
    /\ LET c == out_constraints[slast.idx] IN
       /\ c.num_contacts > 1
       /\ AllNormalImpulses(c) # RZero
       /\ c.tangent_parts[1].impulse # RZero
       /\ c.normal_parts[1].impulse # c.normal_parts[2].impulse
       /\ StoredTangent(c, 1, 1) # StoredTangent(c, 2, 1)
       /\ StoredTangent(c, 1, 1) # c.tangent_parts[1].impulse

(***************************************************************************)
(* The contact constraint: generate splits the contacts into chunks.       *)
(***************************************************************************)
\* The number of solver contacts of the manifold.
NumSolverContacts == Len(manifolds_all[1].data.solver_contacts)

\* The least number of chunks of MAX_MANIFOLD_POINTS that hold n contacts.
CeilChunks(n) ==
    CHOOSE q \in 0..n : /\ q * MAX_MANIFOLD_POINTS >= n
                        /\ (q - 1) * MAX_MANIFOLD_POINTS < n \/ q = 0

\* The (constraint, element) pairs whose writeback addresses contact x
\* (0-based): element k of constraint i writes index manifold_contact_id + k.
WritersOf(x) ==
    {ik \in (1..Len(out_constraints)) \X (0..(MAX_MANIFOLD_POINTS - 1)) :
        /\ ik[2] < out_constraints[ik[1]].num_contacts
        /\ out_constraints[ik[1]].manifold_contact_id + ik[2] = x}

\* Once generate has run: the constraints are the chunks of the contacts,
\* and every contact has one writer.
Chunked ==
    slast.op # "none" =>
       /\ Len(out_constraints) = CeilChunks(NumSolverContacts)
       /\ \A i \in 1..Len(out_constraints) :
             /\ out_constraints[i].manifold_contact_id = (i - 1) * MAX_MANIFOLD_POINTS
             /\ out_constraints[i].num_contacts >= 1
             /\ out_constraints[i].num_contacts <= MAX_MANIFOLD_POINTS
       /\ \A x \in 0..(NumSolverContacts - 1) : Cardinality(WritersOf(x)) = 1
       /\ \A x \in NumSolverContacts..(NumSolverContacts + MAX_MANIFOLD_POINTS) :
             WritersOf(x) = {}

\* A writeback_impulses step stores the normal impulse of element k of its
\* constraint at index manifold_contact_id + k and touches no other point.
WritesOwnChunk ==
    slast'.op = "writeback_impulses" =>
       LET c == out_constraints[slast'.idx] IN
       /\ \A k \in 0..(c.num_contacts - 1) :
             At(manifolds_all'[c.manifold_id].points, c.manifold_contact_id + k).data.impulse
                = At(c.normal_parts, k).impulse
       /\ WritebackStaysInChunk

\* C18: generate emits ceil(n / MAX_MANIFOLD_POINTS) constraints for the n
\* solver contacts of the manifold (none when n = 0), chunk l starting at
\* contact l * MAX_MANIFOLD_POINTS and holding between 1 and
\* MAX_MANIFOLD_POINTS contacts, and the writeback_impulses calls of these
\* constraints write the normal impulse of each of the n contacts once, at
\* index manifold_contact_id + k.
C18_ContactsSplitIntoChunks == []Chunked /\ [][WritesOwnChunk]_vars

\* C18's case: five contacts were split into a chunk of four and a chunk of
\* one, and writeback_impulses of the second chunk has stored its normal
\* impulse in the fifth point.
C18_Witness ==
    /\ slast.op = "writeback_impulses"
    /\ slast.idx = 2
    /\ NumSolverContacts = 5
    /\ Len(out_constraints) = 2
    /\ out_constraints[1].num_contacts = MAX_MANIFOLD_POINTS
    /\ out_constraints[2].manifold_contact_id = MAX_MANIFOLD_POINTS
    /\ out_constraints[2].num_contacts = 1
    /\ manifolds_all[1].points[5].data.impulse = out_constraints[2].normal_parts[1].impulse
    /\ manifolds_all[1].points[5].data.impulse # R(7)
    /\ manifolds_all[1].points[4].data.impulse = R(7)

(***************************************************************************)
(* The axis: the map against the overlaps of the moment.                   *)
(***************************************************************************)
\* A reporting call has just returned and every endpoint on the axis
\* carries the live bound of its proxy.
AfterReportingCall ==
    /\ \/ last.op = "update_endpoints"
       \/ last.op = "batch_insert" /\ last.ok
    /\ Refreshed(axis.endpoints)

\* The map holds a pair of proxies on the axis as true exactly when their
\* boxes intersect.
TracksOverlaps ==
    \A pair \in PairsOf(OnAxis(axis.endpoints)) :
       (pair \in DOMAIN reporting /\ reporting[pair] = TRUE)
          <=> intersects(proxies[pair[1]].aabb, proxies[pair[2]].aabb)

\* C19: with the boxes varying on the maintained axis only, after any
\* sequence of batch_insert calls with a reporter and update_endpoints
\* calls, the proxies moving between the calls, the map holds a pair of
\* proxies on the axis as true if and only if their boxes intersect.
C19_ReportsTrackOverlaps == AfterReportingCall => TracksOverlaps

(***************************************************************************)
(* The contact constraint: the buffer against the accumulated impulses.    *)
(***************************************************************************)
\* The linear delta-velocity the impulses of c stand for: the sum over the
\* normal and the tangent elements of direction * (-im2 * impulse).
AccumulatedLinear(c) ==
    VAdd(VSum([k \in 1..MAX_MANIFOLD_POINTS |->
                 VScale(c.dir1, RMul(RNeg(c.im2), c.normal_parts[k].impulse))]),
         VSum([j \in 1..(DIM - 1) |->
                 VScale(orthonormal_basis(c.dir1)[j],
                        RMul(RNeg(c.im2), c.tangent_parts[j].impulse))]))

\* The angular delta-velocity the impulses of c stand for: the sum over the
\* normal, the tangent and the twist elements of gcross2 * impulse.
AccumulatedAngular(c) ==
    VAdd(VAdd(VSum([k \in 1..MAX_MANIFOLD_POINTS |->
                      VScale(c.normal_parts[k].gcross2, c.normal_parts[k].impulse)]),
              VSum([j \in 1..(DIM - 1) |->
                      VScale(c.tangent_parts[j].gcross2, c.tangent_parts[j].impulse)])),
         VScale(c.twist_part.gcross2, c.twist_part.impulse))

\* Worker w is between two calls, its warmstart call done.
Warmstarted(w) == pc[w].at = "idle" /\ pc[w].warmstarted

\* C20: after warmstart and any number of solve calls of a constraint that
\* alone writes its slot, the slot holds its value before warmstart plus
\* the delta-velocities the current impulses of the constraint stand for.
C20_SlotMatchesImpulses ==
    \A w \in Workers :
       Warmstarted(w) =>
          LET c == WorkerConstraint(w) IN
          /\ mj_lambdas[Slot(c)].linear =
                VAdd(InitBuffer[Slot(c)].linear, AccumulatedLinear(c))
          /\ mj_lambdas[Slot(c)].angular =
                VAdd(InitBuffer[Slot(c)].angular, AccumulatedAngular(c))

\* C20's case: worker 1 has run warmstart and then MaxSolves solve calls
\* that changed the impulses of its constraint, while worker 2 wrote its
\* own slot.
C20_Witness ==
    /\ Warmstarted(1)
    /\ pc[1].solves = MaxSolves
    /\ pc[2].warmstarted
    /\ WorkerConstraint(1) # GeneratedConstraints[1]
    /\ WorkerConstraint(1).twist_part.impulse # RZero
    /\ AccumulatedLinear(WorkerConstraint(1)) # VZero
    /\ AccumulatedAngular(WorkerConstraint(1)) # VZero

====
